---- MODULE Spec2Model ----
(***************************************************************************)
(* Password-gated capture / face recognition pipeline.                     *)
(*   src/captu_image.py : capture_frame, save_image, load_known_faces,     *)
(*                        recognize_face, main                             *)
(*   src/app.py         : verify_password_and_act, submit                  *)
(*                                                                         *)
(* Each Flask worker thread runs verify_password_and_act; its position is  *)
(* pc[t].  The camera, the clock, the process environment, the "faces"     *)
(* directory and the "photos" directory are shared.                        *)
(*   Spec    : concurrent calls of NThreads threads, the clock advancing   *)
(*   SpecSeq : one call, from every "faces" directory and with every probe *)
(*   SpecEnv : successive calls while CAPTURE_PASSWORD changes             *)
(***************************************************************************)
EXTENDS Integers, Sequences, FiniteSets, TLC

(* ------------------------------ bounds --------------------------------- *)
\* worker threads serving /submit concurrently
NThreads == 2
\* calls to verify_password_and_act in one run
MaxCalls == 2
\* clock ticks in one run
MaxTick == 1
\* files in the "faces" directory (specification SpecSeq)
MaxFiles == 2

(* ------------------------- program constants --------------------------- *)
\* clock ticks per second: strftime("%Y%m%d_%H%M%S") keeps whole seconds
TicksPerSecond == 2
\* compare_faces: two encodings match when their distance is <= tolerance
Tolerance == 1
\* os.environ.get("CAPTURE_PASSWORD", "monSecret")
DefaultPassword == "monSecret"
\* value of os.environ.get when the variable is not set
Unset == "<unset>"

Threads == 1..NThreads
EnvValues == {Unset, "autre"}
Passwords == {"monSecret", "autre"}

(* --------------------------- file names -------------------------------- *)
\* the upper-case letters and their lower-case forms (file names are ASCII)
UpperLetters == << "A", "B", "C", "D", "E", "F", "G", "H", "I", "J", "K", "L", "M",
                   "N", "O", "P", "Q", "R", "S", "T", "U", "V", "W", "X", "Y", "Z" >>
LowerLetters == << "a", "b", "c", "d", "e", "f", "g", "h", "i", "j", "k", "l", "m",
                   "n", "o", "p", "q", "r", "s", "t", "u", "v", "w", "x", "y", "z" >>

\* str.lower() on one character: every upper-case letter becomes its lower-case
\* form, every other character is kept
LowerChar(c) ==
  IF \E i \in 1..Len(UpperLetters) : UpperLetters[i] = c
    THEN LowerLetters[CHOOSE i \in 1..Len(UpperLetters) : UpperLetters[i] = c]
    ELSE c

\* str.lower()
lower(s) == [i \in 1..Len(s) |-> LowerChar(s[i])]

\* str.endswith(suffix)
endswith(s, suf) ==
  /\ Len(suf) <= Len(s)
  /\ SubSeq(s, Len(s) - Len(suf) + 1, Len(s)) = suf

valid_exts == { <<".", "j", "p", "g">>, <<".", "j", "p", "e", "g">>, <<".", "p", "n", "g">> }

\* filename.lower().endswith(valid_exts)
HasValidExtCaseSensitive(name) == \E e \in valid_exts : endswith(name, e)
HasValidExt(name) == \E e \in valid_exts : endswith(lower(name), e)

\* str.rfind("."), 1-based, 0 when there is no dot
RfindDot(s) ==
  IF \E i \in 1..Len(s) : s[i] = "."
    THEN CHOOSE i \in 1..Len(s) : s[i] = "." /\ \A j \in (i+1)..Len(s) : s[j] # "."
    ELSE 0

\* os.path.splitext(filename)[0]: the extension starts at the last dot,
\* unless only dots precede that dot (then the whole name is the root)
splitext0(s) ==
  LET d == RfindDot(s) IN
  IF d > 0 /\ \E i \in 1..(d-1) : s[i] # "."
    THEN SubSeq(s, 1, d - 1)
    ELSE s

FileNames == { <<"a", ".", "p", "n", "g">>,
               <<"a", ".", "J", "P", "G">>,
               <<"b", ".", "j", "p", "e", "g">>,
               <<"B", ".", "J", "p", "E", "G">>,
               <<"d", ".", "t", "x", "t">>,
               <<".", "p", "n", "g">> }

(* ---------------------------- encodings -------------------------------- *)
\* a face encoding is an integer; two encodings are as far apart as their difference
Abs(n) == IF n < 0 THEN -n ELSE n

\* face_recognition.compare_faces on one pair
compare_one(known, probe) == Abs(known - probe) <= Tolerance

\* face_recognition.compare_faces(known_encodings, captured_encoding)
compare_faces(known_encodings, probe) ==
  [i \in 1..Len(known_encodings) |-> compare_one(known_encodings[i], probe)]

\* results.index(True), 0 when True is not in results
IndexOfTrue(results) ==
  IF \E i \in 1..Len(results) : results[i]
    THEN CHOOSE i \in 1..Len(results) : results[i] /\ \A j \in 1..(i-1) : ~results[j]
    ELSE 0

\* the faces detected in an image, in detection order; the first encodings 1, 2, 3
\* give matching pairs (distance 0 or 1) and a non-matching pair (1 and 3)
FaceLists == { <<>>, <<1>>, <<2>>, <<3, 1>> }

\* a file of the "faces" directory: decodable = load_image_file and
\* face_encodings do not raise
FileContents == { [decodable |-> FALSE, faces |-> <<>>] }
                  \cup { [decodable |-> TRUE, faces |-> f] : f \in FaceLists }

Files == { [name |-> n, decodable |-> c.decodable, faces |-> c.faces] :
             n \in FileNames, c \in FileContents }

\* os.listdir: distinct names, arbitrary order
ListingsUpTo(n, files) ==
  { l \in UNION { [1..k -> files] : k \in 0..n } :
      \A i, j \in 1..Len(l) : i # j => l[i].name # l[j].name }

\* states of the "faces" directory: missing, unreadable (os.listdir raises), listed
DirsUpTo(n, files) ==
  { [isdir |-> FALSE, readable |-> TRUE, listing |-> <<>>] }
    \cup { [isdir |-> TRUE, readable |-> FALSE, listing |-> <<>>] }
    \cup { [isdir |-> TRUE, readable |-> TRUE, listing |-> l] : l \in ListingsUpTo(n, files) }

(* ------------------------- load_known_faces ---------------------------- *)
\* the test "if encodings:" guarding both appends
KeepsEntry(f) == f.faces # <<>>

RECURSIVE load_loop(_, _, _)
\* the for loop over os.listdir(folder); acc = (known_encodings, known_names)
load_loop(listing, i, acc) ==
  IF i > Len(listing) THEN acc
  ELSE LET f == listing[i] IN
    IF ~HasValidExt(f.name) THEN load_loop(listing, i + 1, acc)
    ELSE IF ~f.decodable THEN load_loop(listing, i + 1, acc)
    ELSE IF KeepsEntry(f)
      THEN load_loop(listing, i + 1,
             [encodings |-> Append(acc.encodings, f.faces[1]),
              names |-> Append(acc.names, splitext0(f.name))])
      ELSE load_loop(listing, i + 1, acc)

EmptyKnown == [encodings |-> <<>>, names |-> <<>>]

\* load_known_faces(folder): raised = os.listdir raised
load_known_faces(available, dir) ==
  IF ~available THEN [raised |-> FALSE, known |-> EmptyKnown]
  ELSE IF ~dir.isdir THEN [raised |-> FALSE, known |-> EmptyKnown]
  ELSE IF ~dir.readable THEN [raised |-> TRUE, known |-> EmptyKnown]
  ELSE [raised |-> FALSE, known |-> load_loop(dir.listing, 1, EmptyKnown)]

(* --------------------------- recognize_face ---------------------------- *)
\* None
NoPerson == <<>>

\* the index of known_names that recognize_face returns
MatchIndexLast(results) ==
  CHOOSE i \in 1..Len(results) : results[i] /\ \A j \in (i+1)..Len(results) : ~results[j]
MatchIndex(results) == IndexOfTrue(results)

\* recognize_face(frame, known_encodings, known_names)
recognize_face(available, frame, known_encodings, known_names) ==
  IF ~available \/ known_encodings = <<>> THEN NoPerson
  ELSE IF frame.faces = <<>> THEN NoPerson
  ELSE LET results == compare_faces(known_encodings, frame.faces[1]) IN
       IF \E i \in 1..Len(results) : results[i]
         THEN known_names[MatchIndex(results)]
         ELSE NoPerson

(* ------------------------------ state ---------------------------------- *)
VARIABLES
  FACE_REC_AVAILABLE,  \* captu_image.FACE_REC_AVAILABLE, set when the module is imported
  environ,             \* os.environ["CAPTURE_PASSWORD"], or Unset
  environ0,            \* the value environ had when the process started
  now,                 \* datetime.datetime.now(), in clock ticks
  faces_dir,           \* the "faces" directory
  photos,              \* the "photos" directory: path -> frame stored there
  camera,              \* threads holding an opened, unreleased cv2.VideoCapture(0)
  ncalls,              \* calls to verify_password_and_act started so far
  nframes,             \* frames the camera has delivered so far
  pc,                  \* position of each thread in verify_password_and_act
  submitted,           \* submitted_password
  correct_password,    \* the local correct_password
  out_path,            \* the local out_path
  frame,               \* the local frame
  known,               \* the locals known_encodings, known_names
  result,              \* the dict result
  ops                  \* operations the current call has attempted

vars == << FACE_REC_AVAILABLE, environ, environ0, now, faces_dir, photos, camera,
           ncalls, nframes, pc, submitted, correct_password, out_path,
           frame, known, result, ops >>

\* no frame (None); the frames the camera delivers are numbered
NoFrame == [id |-> 0, faces |-> <<>>]

\* strftime("%Y%m%d_%H%M%S"): the clock truncated to whole seconds
strftime(t) == ToString(t \div TicksPerSecond)

\* os.path.join("photos", f"photo_{ts}.png")
PhotoPath(ts) == "photos/photo_" \o ts \o ".png"

Paths == { PhotoPath(strftime(t)) : t \in 0..(MaxTick + 1) }

RECURSIVE Join(_)
\* the characters of a name as one string
Join(s) == IF s = <<>> THEN "" ELSE s[1] \o Join(Tail(s))

(* message templates of verify_password_and_act and exception texts *)
MsgSaved == "Mot de passe incorrect - photo enregistree : "
MsgCaptureFailed == "Echec de la capture photo : "
MsgUnavailable == "Mot de passe correct. La bibliotheque 'face_recognition' n'est pas installee. Reconnaissance ignoree."
MsgNoGallery == "Mot de passe correct. Aucun visage de reference trouve dans 'faces'. Reconnaissance ignoree."
MsgWelcome == "Mot de passe correct. Bonne arrivee "
MsgUnknown == "Mot de passe correct. Visage inconnu."
MsgRecImpossible == "Mot de passe correct. Impossible d'effectuer la reconnaissance : "
ErrAccess == "Impossible d'acceder a la camera."
ErrRead == "Echec de la capture depuis la camera."
ErrSave == "Echec de l'enregistrement de l'image: "
ErrMakedirs == "OSError(photos)"
ErrCvRead == "cv2.error(read)"
ErrCvWrite == "cv2.error(imwrite)"
ErrCvEncode == "cv2.error(face_encodings)"

\* the dict result as first assigned; message = <<template, interpolated text>>,
\* photo_path None is "", person None is NoPerson
InitResult == [status |-> "ok", message |-> <<"", "">>, photo_path |-> "", person |-> NoPerson]

\* capture: capture_frame calls, persist: save_image calls, wrote: cv2.imwrite calls that
\* returned True, load: load_known_faces calls, recog: recognize_face calls
NoOps == [capture |-> 0, persist |-> 0, wrote |-> 0, load |-> 0, recog |-> 0]

\* os.environ.get("CAPTURE_PASSWORD", "monSecret") evaluated at the call;
\* env0 is the value at process start
ConfiguredSecretStartup(env, env0) == IF env0 = Unset THEN DefaultPassword ELSE env0
ConfiguredSecret(env, env0) == IF env = Unset THEN DefaultPassword ELSE env

\* the two except clauses of verify_password_and_act
ExceptResult(wrong, e) ==
  IF wrong
    THEN [InitResult EXCEPT !.status = "error", !.message = <<MsgCaptureFailed, e>>]
    ELSE [InitResult EXCEPT !.message = <<MsgRecImpossible, e>>]

\* the call of thread t took the branch "submitted_password != correct_password"
Wrong(t) == submitted[t] # correct_password[t]

\* "if not known_encodings"
GalleryEmptyNever(k) == FALSE
GalleryEmpty(k) == k.encodings = <<>>

\* the statement that follows a successful capture_frame()
NextAfterFrameAlwaysRecognize(wrong) == "recognize"
NextAfterFrame(wrong) == IF wrong THEN "save" ELSE "recognize"

\* the finally clause of capture_frame: cap.release() whatever read did
ReleaseOnSuccessOnly(cam, t, r) == IF r = "raise" THEN cam ELSE cam \ {t}
ReleaseAfterRead(cam, t, r) == cam \ {t}

\* save_image: the exception it raises, "" when it returns;
\* w = "ok" / "false": cv2.imwrite returned True / False, "raise": it raised
save_image_unchecked(w, path) == IF w = "raise" THEN ErrCvWrite ELSE ""
save_image(w, path) ==
  IF w = "raise" THEN ErrCvWrite
  ELSE IF w = "false" THEN ErrSave \o path
  ELSE ""

(* ------------------------------- Init ---------------------------------- *)
InitWith(dirs, envs) ==
  /\ FACE_REC_AVAILABLE \in BOOLEAN
  /\ environ \in envs
  /\ environ0 = environ
  /\ now = 0
  /\ faces_dir \in dirs
  /\ photos = [p \in Paths |-> NoFrame]
  /\ camera = {}
  /\ ncalls = 0
  /\ nframes = 0
  /\ pc = [t \in Threads |-> "idle"]
  /\ submitted = [t \in Threads |-> ""]
  /\ correct_password = [t \in Threads |-> ""]
  /\ out_path = [t \in Threads |-> ""]
  /\ frame = [t \in Threads |-> NoFrame]
  /\ known = [t \in Threads |-> EmptyKnown]
  /\ result = [t \in Threads |-> InitResult]
  /\ ops = [t \in Threads |-> NoOps]

\* the "faces" directories of the concurrent specification: unreadable, and one
\* reference face
DirsConc ==
  { [isdir |-> TRUE, readable |-> FALSE, listing |-> <<>>],
    [isdir |-> TRUE, readable |-> TRUE, listing |->
       << [name |-> <<"a", ".", "p", "n", "g">>, decodable |-> TRUE, faces |-> <<3, 1>>] >>] }

\* concurrent calls; CAPTURE_PASSWORD is not set and stays so
Init == InitWith(DirsConc, {Unset})

(* ------------------------------ actions -------------------------------- *)
\* submit: a thread that is not inside a call serves the next request, and
\* verify_password_and_act runs up to its first camera access (or its return);
\* mk = os.makedirs("photos", exist_ok=True) succeeded
Submit(t, s, mk) ==
  /\ pc[t] \in {"idle", "done", "fault"}
  /\ ncalls < MaxCalls
  /\ ncalls' = ncalls + 1
  /\ frame' = [frame EXCEPT ![t] = NoFrame]
  /\ submitted' = [submitted EXCEPT ![t] = s]
  /\ LET cp == ConfiguredSecret(environ, environ0)
         ld == load_known_faces(FACE_REC_AVAILABLE, faces_dir)
     IN
     /\ correct_password' = [correct_password EXCEPT ![t] = cp]
     /\ IF s # cp
          THEN /\ IF mk
                    THEN /\ out_path' = [out_path EXCEPT ![t] = PhotoPath(strftime(now))]
                         /\ pc' = [pc EXCEPT ![t] = "capture"]
                         /\ result' = [result EXCEPT ![t] = InitResult]
                    ELSE /\ out_path' = [out_path EXCEPT ![t] = ""]
                         /\ pc' = [pc EXCEPT ![t] = "done"]
                         /\ result' = [result EXCEPT ![t] = ExceptResult(TRUE, ErrMakedirs)]
               /\ known' = [known EXCEPT ![t] = EmptyKnown]
               /\ ops' = [ops EXCEPT ![t] = NoOps]
          ELSE IF ~FACE_REC_AVAILABLE
            THEN /\ pc' = [pc EXCEPT ![t] = "done"]
                 /\ result' = [result EXCEPT ![t] =
                                 [InitResult EXCEPT !.message = <<MsgUnavailable, "">>]]
                 /\ out_path' = [out_path EXCEPT ![t] = ""]
                 /\ known' = [known EXCEPT ![t] = EmptyKnown]
                 /\ ops' = [ops EXCEPT ![t] = NoOps]
          ELSE /\ ops' = [ops EXCEPT ![t] = [NoOps EXCEPT !.load = 1]]
               /\ out_path' = [out_path EXCEPT ![t] = ""]
               /\ IF ld.raised
                    THEN /\ pc' = [pc EXCEPT ![t] = "fault"]
                         /\ known' = [known EXCEPT ![t] = EmptyKnown]
                         /\ result' = [result EXCEPT ![t] = InitResult]
                    ELSE /\ known' = [known EXCEPT ![t] = ld.known]
                         /\ IF GalleryEmpty(ld.known)
                              THEN /\ pc' = [pc EXCEPT ![t] = "done"]
                                   /\ result' = [result EXCEPT ![t] =
                                        [InitResult EXCEPT !.message = <<MsgNoGallery, "">>]]
                              ELSE /\ pc' = [pc EXCEPT ![t] = "capture"]
                                   /\ result' = [result EXCEPT ![t] = InitResult]
  /\ UNCHANGED << FACE_REC_AVAILABLE, environ, environ0, now, faces_dir, photos,
                  camera, nframes >>

\* capture_frame, cap = cv2.VideoCapture(0) and the isOpened() test
Open(t, opened) ==
  /\ pc[t] = "capture"
  /\ ops' = [ops EXCEPT ![t].capture = @ + 1]
  /\ IF opened
       THEN /\ camera' = camera \cup {t}
            /\ pc' = [pc EXCEPT ![t] = "read"]
            /\ UNCHANGED result
       ELSE /\ camera' = camera
            /\ pc' = [pc EXCEPT ![t] = "done"]
            /\ result' = [result EXCEPT ![t] = ExceptResult(Wrong(t), ErrAccess)]
  /\ UNCHANGED << FACE_REC_AVAILABLE, environ, environ0, now, faces_dir, photos,
                  ncalls, nframes, submitted, correct_password, out_path,
                  frame, known >>

\* capture_frame, cap.read() with its finally clause, and the test of ret/frame;
\* r = "frame": a frame showing the faces fs, "noframe": ret false or frame None,
\* "raise": cap.read() raised
Read(t, r, fs) ==
  /\ pc[t] = "read"
  /\ camera' = ReleaseAfterRead(camera, t, r)
  /\ IF r = "frame"
       THEN /\ frame' = [frame EXCEPT ![t] = [id |-> nframes + 1, faces |-> fs]]
            /\ nframes' = nframes + 1
            /\ pc' = [pc EXCEPT ![t] = NextAfterFrame(Wrong(t))]
            /\ UNCHANGED result
       ELSE /\ frame' = frame
            /\ nframes' = nframes
            /\ pc' = [pc EXCEPT ![t] = "done"]
            /\ result' = [result EXCEPT ![t] =
                 ExceptResult(Wrong(t), IF r = "raise" THEN ErrCvRead ELSE ErrRead)]
  /\ UNCHANGED << FACE_REC_AVAILABLE, environ, environ0, now, faces_dir, photos,
                  ncalls, submitted, correct_password, out_path, known, ops >>

\* core.save_image(out_path, frame) and the rest of the wrong-password branch
Save(t, w) ==
  /\ pc[t] = "save"
  /\ ops' = [ops EXCEPT ![t].persist = @ + 1,
                        ![t].wrote = IF w = "ok" THEN @ + 1 ELSE @]
  /\ photos' = IF w = "ok" THEN [photos EXCEPT ![out_path[t]] = frame[t]] ELSE photos
  /\ LET e == save_image(w, out_path[t]) IN
     IF e = ""
       THEN /\ result' = [result EXCEPT ![t] =
                 [InitResult EXCEPT !.status = "error",
                                    !.message = <<MsgSaved, out_path[t]>>,
                                    !.photo_path = out_path[t]]]
       ELSE /\ result' = [result EXCEPT ![t] = ExceptResult(TRUE, e)]
  /\ pc' = [pc EXCEPT ![t] = "done"]
  /\ UNCHANGED << FACE_REC_AVAILABLE, environ, environ0, now, faces_dir, camera,
                  ncalls, nframes, submitted, correct_password, out_path, frame, known >>

\* core.recognize_face(frame, known_encodings, known_names) and the rest of the
\* correct-password branch; raises = cvtColor or face_encodings raised
Recognize(t, raises) ==
  /\ pc[t] = "recognize"
  /\ ops' = [ops EXCEPT ![t].recog = @ + 1]
  /\ LET person == recognize_face(FACE_REC_AVAILABLE, frame[t],
                                  known[t].encodings, known[t].names) IN
     result' = [result EXCEPT ![t] =
       IF raises THEN ExceptResult(FALSE, ErrCvEncode)
       ELSE IF person # NoPerson
         THEN [InitResult EXCEPT !.message = <<MsgWelcome, Join(person) \o " !">>,
                                 !.person = person]
         ELSE [InitResult EXCEPT !.message = <<MsgUnknown, "">>]]
  /\ pc' = [pc EXCEPT ![t] = "done"]
  /\ UNCHANGED << FACE_REC_AVAILABLE, environ, environ0, now, faces_dir, photos,
                  camera, ncalls, nframes, submitted, correct_password,
                  out_path, frame, known >>

\* the clock advances
Tick ==
  /\ now < MaxTick
  /\ now' = now + 1
  /\ UNCHANGED << FACE_REC_AVAILABLE, environ, environ0, faces_dir, photos, camera,
                  ncalls, nframes, pc, submitted, correct_password, out_path,
                  frame, known, result, ops >>

\* os.environ["CAPTURE_PASSWORD"] is set or deleted while the process runs
SetEnv(v) ==
  /\ v # environ
  /\ environ' = v
  /\ UNCHANGED << FACE_REC_AVAILABLE, environ0, now, faces_dir, photos, camera,
                  ncalls, nframes, pc, submitted, correct_password, out_path,
                  frame, known, result, ops >>

ReadOutcomes == {"frame", "noframe", "raise"}
WriteOutcomes == {"ok", "false", "raise"}
\* faces a camera frame may show (concurrent / sequential specification)
ProbeFacesConc == { <<>>, <<1>>, <<2>> }
ProbeFaces == FaceLists

Next ==
  \/ \E t \in Threads, s \in Passwords, mk \in BOOLEAN : Submit(t, s, mk)
  \/ \E t \in Threads, opened \in BOOLEAN : Open(t, opened)
  \/ \E t \in Threads, r \in ReadOutcomes, fs \in ProbeFacesConc : Read(t, r, fs)
  \/ \E t \in Threads, w \in WriteOutcomes : Save(t, w)
  \/ \E t \in Threads, raises \in BOOLEAN : Recognize(t, raises)
  \/ Tick

Spec == Init /\ [][Next]_vars

(* one call of one thread, from every "faces" directory of up to MaxFiles files
   and with every probe *)
InitSeq == InitWith(DirsUpTo(MaxFiles, Files), EnvValues)

NextSeq ==
  \/ \E s \in Passwords, mk \in BOOLEAN : ncalls = 0 /\ Submit(1, s, mk)
  \/ \E opened \in BOOLEAN : Open(1, opened)
  \/ \E r \in ReadOutcomes, fs \in ProbeFaces : Read(1, r, fs)
  \/ \E w \in WriteOutcomes : Save(1, w)
  \/ \E raises \in BOOLEAN : Recognize(1, raises)

SpecSeq == InitSeq /\ [][NextSeq]_vars

(* calls of one thread, one after the other, while CAPTURE_PASSWORD is set and
   deleted in the environment of the process *)
InitEnv == InitWith(DirsConc, EnvValues)

NextEnv ==
  \/ \E s \in Passwords, mk \in BOOLEAN : Submit(1, s, mk)
  \/ \E opened \in BOOLEAN : Open(1, opened)
  \/ \E r \in ReadOutcomes, fs \in ProbeFacesConc : Read(1, r, fs)
  \/ \E w \in WriteOutcomes : Save(1, w)
  \/ \E raises \in BOOLEAN : Recognize(1, raises)
  \/ \E v \in EnvValues : SetEnv(v)

SpecEnv == InitEnv /\ [][NextEnv]_vars

(* =============================== claims ================================ *)
\* thread t has started a call of verify_password_and_act (pc[t] = "done" or
\* "fault": the call has ended and its locals are still those of the call)
Active(t) == pc[t] # "idle"

\* thread t is inside a call of verify_password_and_act
Running(t) == pc[t] \in {"capture", "read", "save", "recognize"}

\* the secret the environment held when the process started
StartupSecret == IF environ0 = Unset THEN DefaultPassword ELSE environ0

(* C1 as stated: a call with a wrong secret never loads the gallery, never runs
   recognition, attempts exactly one capture and, when the capture gave a
   frame, exactly one persist. *)
C1_Original ==
  \A t \in Threads :
    (pc[t] = "done" /\ Wrong(t)) =>
      /\ ops[t].load = 0 /\ ops[t].recog = 0
      /\ ops[t].capture = 1
      /\ ops[t].persist = (IF frame[t] # NoFrame THEN 1 ELSE 0)

(* C1 amended: a call with a wrong secret never loads the gallery and never
   runs recognition; it attempts exactly one capture when os.makedirs succeeded
   (out_path is assigned) and none when os.makedirs raised; a captured frame is
   followed by exactly one persist and no persist happens without a frame. *)
C1_WrongSecret ==
  \A t \in Threads :
    (Active(t) /\ Wrong(t)) =>
      /\ ops[t].load = 0 /\ ops[t].recog = 0
      /\ pc[t] \notin {"recognize", "fault"}
      /\ known[t] = EmptyKnown
      /\ ops[t].persist <= ops[t].capture
      /\ (ops[t].persist = 1) => (frame[t] # NoFrame)
      /\ (pc[t] = "done") =>
           /\ ops[t].capture = (IF out_path[t] # "" THEN 1 ELSE 0)
           /\ ops[t].persist = (IF frame[t] # NoFrame THEN 1 ELSE 0)
           /\ (out_path[t] = "") => (result[t].message = <<MsgCaptureFailed, ErrMakedirs>>)

\* a wrong-secret call has captured and persisted although recognition was possible
C1_Witness ==
  \E t \in Threads :
    /\ pc[t] = "done" /\ Wrong(t)
    /\ ops[t].capture = 1 /\ ops[t].persist = 1
    /\ FACE_REC_AVAILABLE
    /\ load_known_faces(TRUE, faces_dir).known # EmptyKnown

(* C2: on a correct secret, a disabled capability gives zero captures and the
   "recognition unavailable" outcome; an enabled capability with an empty loaded
   gallery gives zero captures and the "no gallery" outcome; the camera is
   touched only when the capability is enabled and the gallery is non-empty. *)
C2_CorrectSecretShortCircuit ==
  \A t \in Threads :
    (Active(t) /\ ~Wrong(t) /\ pc[t] # "fault") =>
      /\ (~FACE_REC_AVAILABLE) =>
           /\ pc[t] = "done" /\ ops[t].capture = 0 /\ ops[t].load = 0
           /\ result[t].message = <<MsgUnavailable, "">>
           /\ result[t].status = "ok"
      /\ (FACE_REC_AVAILABLE /\ known[t].encodings = <<>>) =>
           /\ pc[t] = "done" /\ ops[t].capture = 0 /\ ops[t].load = 1
           /\ result[t].message = <<MsgNoGallery, "">>
           /\ result[t].status = "ok"
      /\ (ops[t].capture > 0 \/ pc[t] \in {"capture", "read", "recognize"}) =>
           (FACE_REC_AVAILABLE /\ known[t].encodings # <<>>)
      /\ ops[t].persist = 0

\* a correct-secret call ended "no gallery" over a directory that holds files
C2_Witness ==
  \E t \in Threads :
    /\ pc[t] = "done" /\ Active(t) /\ ~Wrong(t)
    /\ FACE_REC_AVAILABLE /\ faces_dir.listing # <<>>
    /\ known[t].encodings = <<>> /\ ops[t].capture = 0
    /\ result[t].message = <<MsgNoGallery, "">>

\* indices of the gallery entries whose encoding matches the probe encoding e
Matching(k, e) == { i \in 1..Len(k.encodings) : compare_one(k.encodings[i], e) }

\* the least element of a non-empty set of naturals
Least(S) == CHOOSE i \in S : \A j \in S : i <= j

\* recognize_face has returned in the call of thread t
Recognized(t) ==
  /\ pc[t] = "done" /\ ops[t].recog = 1
  /\ result[t].message[1] # MsgRecImpossible

(* C3: recognize_face returns the label of the lowest-index gallery entry that
   matches the first face of the probe, and none when the probe shows no face
   or no entry matches. *)
C3_FirstMatchWins ==
  \A t \in Threads :
    Recognized(t) =>
      LET M == IF frame[t].faces = <<>> THEN {} ELSE Matching(known[t], frame[t].faces[1]) IN
      /\ (M = {}) => (result[t].person = NoPerson /\ result[t].message = <<MsgUnknown, "">>)
      /\ (M # {}) => (result[t].person = known[t].names[Least(M)])

\* two entries with different labels match the probe, the second one exactly,
\* and the first label was returned
C3_Witness ==
  \E t \in Threads :
    /\ Recognized(t)
    /\ Len(known[t].encodings) = 2
    /\ known[t].names[1] # known[t].names[2]
    /\ frame[t].faces # <<>>
    /\ Matching(known[t], frame[t].faces[1]) = {1, 2}
    /\ known[t].encodings[2] = frame[t].faces[1]
    /\ known[t].encodings[1] # frame[t].faces[1]
    /\ result[t].person = known[t].names[1]

\* the file names of FileNames that end in .jpg, .jpeg or .png whatever the case
ImageNames == { <<"a", ".", "p", "n", "g">>, <<"a", ".", "J", "P", "G">>,
                <<"b", ".", "j", "p", "e", "g">>, <<"B", ".", "J", "p", "E", "G">>,
                <<".", "p", "n", "g">> }

\* the stem of each image name
Stem(n) ==
  CASE n = <<"a", ".", "p", "n", "g">> -> <<"a">>
    [] n = <<"a", ".", "J", "P", "G">> -> <<"a">>
    [] n = <<"b", ".", "j", "p", "e", "g">> -> <<"b">>
    [] n = <<"B", ".", "J", "p", "E", "G">> -> <<"B">>
    [] n = <<".", "p", "n", "g">> -> <<".", "p", "n", "g">>

\* indices of the directory entries the gallery must hold
Kept(l) == { i \in 1..Len(l) : l[i].name \in ImageNames /\ l[i].decodable /\ l[i].faces # <<>> }

\* the k-th smallest element of S
Nth(S, k) == CHOOSE i \in S : Cardinality({ j \in S : j < i }) = k - 1

\* load_known_faces has returned in the call of thread t
Loaded(t) == Active(t) /\ ops[t].load = 1 /\ pc[t] # "fault"

\* reachable case of C3: the first entry does not match the probe, the second
\* does, and the second label was returned
C3_SkipsNonMatching ==
  \E t \in Threads :
    /\ Recognized(t)
    /\ frame[t].faces # <<>>
    /\ Matching(known[t], frame[t].faces[1]) = {2}
    /\ known[t].names[1] # known[t].names[2]
    /\ result[t].person = known[t].names[2]

\* reachable case of C3: the probe shows a face, no entry of a two-entry gallery
\* matches it, and none was returned
C3_NoMatch ==
  \E t \in Threads :
    /\ Recognized(t)
    /\ frame[t].faces # <<>>
    /\ Len(known[t].encodings) = 2
    /\ Matching(known[t], frame[t].faces[1]) = {}
    /\ result[t].person = NoPerson

(* C4: load_known_faces returns, in directory order and without sorting or
   deduplication, exactly one (stem, first encoding) entry per file that has an
   image extension (any case), decodes and shows a face; the two lists are
   index-aligned. *)
C4_GalleryLoad ==
  \A t \in Threads :
    Loaded(t) =>
      LET l == faces_dir.listing
          K == Kept(l)
      IN
      /\ Len(known[t].encodings) = Cardinality(K)
      /\ Len(known[t].names) = Cardinality(K)
      /\ \A k \in 1..Cardinality(K) :
           /\ known[t].names[k] = Stem(l[Nth(K, k)].name)
           /\ known[t].encodings[k] = l[Nth(K, k)].faces[1]

\* a corrupt image was skipped and an upper-case .JPG after it was loaded
C4_Witness ==
  \E t \in Threads :
    /\ Loaded(t)
    /\ Len(faces_dir.listing) = 2
    /\ faces_dir.listing[1].name = <<"a", ".", "p", "n", "g">>
    /\ ~faces_dir.listing[1].decodable
    /\ faces_dir.listing[2].name = <<"a", ".", "J", "P", "G">>
    /\ known[t].names = << <<"a">> >>
    /\ known[t].encodings = << faces_dir.listing[2].faces[1] >>

(* C5: no failure propagates out of verify_password_and_act: a call never ends
   in an unhandled exception. *)
C5_NoUnhandledFault == \A t \in Threads : pc[t] # "fault"

(* C6: at most one call is between opening the camera and releasing it. *)
C6_CameraExclusive == Cardinality(camera) <= 1

(* C7 as stated: every call compares the submitted secret against the secret
   the environment held when the process started. *)
C7_Original == \A t \in Threads : Active(t) => correct_password[t] = StartupSecret

(* C7 amended: a call reads the configured secret from the environment when it
   starts (default "monSecret") and keeps that value until it returns, whatever
   happens to the environment meanwhile. *)
C7_ReadAtEachCall ==
  [][ /\ (ncalls' # ncalls) =>
           \E t \in Threads :
             /\ correct_password'[t] = (IF environ = Unset THEN DefaultPassword ELSE environ)
             /\ \A u \in Threads \ {t} : correct_password'[u] = correct_password[u]
      /\ (ncalls' = ncalls) => correct_password' = correct_password ]_vars

\* a call compares against a secret that is not the one of process start
C7_Witness ==
  \E t \in Threads : Active(t) /\ correct_password[t] # StartupSecret /\ environ # environ0

\* the outcome variant of a failed capture: status "error" under the
\* "Echec de la capture photo" template, no photo_path
CaptureFailedVariant(r) ==
  r.status = "error" /\ r.message[1] = MsgCaptureFailed /\ r.photo_path = ""

\* the call of thread t called save_image and cv2.imwrite did not return True
PersistFailed(t) == pc[t] = "done" /\ Wrong(t) /\ ops[t].persist = 1 /\ ops[t].wrote = 0

\* the call of thread t called capture_frame and got no frame
CaptureFailed(t) == pc[t] = "done" /\ Wrong(t) /\ ops[t].capture = 1 /\ frame[t] = NoFrame

(* C8 as stated: a failed persist returns a variant other than the one a
   failed capture returns. *)
C8_Original ==
  \A t \in Threads : PersistFailed(t) => ~CaptureFailedVariant(result[t])

(* C8 amended: a failed persist returns the same variant as a failed capture
   (status "error", template "Echec de la capture photo", no photo_path); only
   the interpolated exception text tells them apart; a failed capture attempts
   no write; a successful write returns the photo path. *)
C8_PersistFailure ==
  \A t \in Threads :
    /\ PersistFailed(t) =>
         /\ CaptureFailedVariant(result[t])
         /\ result[t].message[2] \in {ErrSave \o out_path[t], ErrCvWrite}
    /\ CaptureFailed(t) =>
         /\ CaptureFailedVariant(result[t])
         /\ result[t].message[2] \in {ErrAccess, ErrRead, ErrCvRead}
         /\ ops[t].persist = 0
    /\ (pc[t] = "done" /\ Wrong(t) /\ ops[t].wrote = 1) =>
         /\ result[t].status = "error"
         /\ result[t].message = <<MsgSaved, out_path[t]>>
         /\ result[t].photo_path = out_path[t]

\* cv2.imwrite returned False after a successful capture
C8_Witness ==
  \E t \in Threads :
    /\ PersistFailed(t)
    /\ frame[t] # NoFrame
    /\ result[t].message = <<MsgCaptureFailed, ErrSave \o out_path[t]>>

(* C9: a camera handle is held only between the open and the read of
   capture_frame; once capture_frame has returned or raised it is released, and
   no handle is held when no call is running. *)
C9_HandleReleased ==
  /\ \A t \in camera : pc[t] = "read"
  /\ (\A t \in Threads : ~Running(t)) => camera = {}

\* a call whose cap.read() raised has ended and the camera is free
C9_Witness ==
  \E t \in Threads :
    /\ pc[t] = "done"
    /\ result[t].message[2] = ErrCvRead
    /\ t \notin camera

(* C10: the photo of every call that returned a photo path is still stored at
   that path. *)
C10_AppendOnly ==
  \A t \in Threads :
    (pc[t] = "done" /\ result[t].photo_path # "") =>
      photos[result[t].photo_path] = frame[t]

====
